---------------------------- MODULE Spec2Model ----------------------------
(***************************************************************************)
(* A model of src/src/beeai_agents/agent.py: the input validator, the      *)
(* keyword intent analyser and the two agent generators                    *)
(* (enhanced_hello_world_agent, health_check_agent).                       *)
(*                                                                         *)
(* A Python str is a sequence of one-character strings, so that lower(),   *)
(* the substring test "in" and split() are computed and not assumed.       *)
(* A part's content is a record [type, text, num]: a str with its text, or *)
(* a non-text value (an int).                                              *)
(***************************************************************************)
EXTENDS Integers, Sequences, FiniteSets, TLC

VARIABLES
    agent,            \* run -> the agent function invoked
    input,            \* run -> its message batch (the parameter "input")
    pc,               \* run -> where the generator is suspended
    out,              \* run -> the values it has yielded so far, in order
    pauses,           \* run -> Len(out) at each asyncio.sleep it began
    user_message,     \* run -> the local user_message
    intent_analysis,  \* run -> the local intent_analysis
    fault,            \* run -> the exception raised in it, or NoFault
    log,              \* the module-level logger: the records written
    call              \* a direct call of one of the two pure functions

vars == << agent, input, pc, out, pauses, user_message, intent_analysis,
           fault, log, call >>

-----------------------------------------------------------------------------
(* Bounds *)

MaxMessages == 2
MaxParts == 2
MaxFragments == 3
NumRuns == 2

-----------------------------------------------------------------------------
(* Python str operations *)

UpperCase ==
    << "A", "B", "C", "D", "E", "F", "G", "H", "I", "J", "K", "L", "M",
       "N", "O", "P", "Q", "R", "S", "T", "U", "V", "W", "X", "Y", "Z" >>

LowerCase ==
    << "a", "b", "c", "d", "e", "f", "g", "h", "i", "j", "k", "l", "m",
       "n", "o", "p", "q", "r", "s", "t", "u", "v", "w", "x", "y", "z" >>

\* The lower-case letter of each upper-case letter.
LowerOf ==
    [c \in { UpperCase[i] : i \in DOMAIN UpperCase } |->
        LowerCase[CHOOSE i \in DOMAIN UpperCase : UpperCase[i] = c]]

\* str.lower() on one character
lower_char(c) == IF c \in DOMAIN LowerOf THEN LowerOf[c] ELSE c

\* A lower() that forgets to convert: the text is matched as typed.
lower_identity(s) == s

\* str.lower()
lower(s) == [i \in DOMAIN s |-> lower_char(s[i])]

\* The characters str.split() treats as separators.
Whitespace == {" ", "\t", "\n"}

RECURSIVE find_from(_, _, _)
\* The scan behind "word in text": is word at position i or later?
find_from(word, text, i) ==
    IF i + Len(word) - 1 > Len(text) THEN FALSE
    ELSE IF SubSeq(text, i, i + Len(word) - 1) = word THEN TRUE
    ELSE find_from(word, text, i + 1)

\* Python's  word in text  on two strs
contains(word, text) == find_from(word, text, 1)

RECURSIVE split_scan(_, _, _, _)
\* str.split() with no separator: runs of whitespace separate the tokens, and
\* leading and trailing whitespace yields no empty token.
split_scan(s, i, cur, acc) ==
    IF i > Len(s)
    THEN IF cur = << >> THEN acc ELSE Append(acc, cur)
    ELSE IF s[i] \in Whitespace
         THEN split_scan(s, i + 1, << >>,
                         IF cur = << >> THEN acc ELSE Append(acc, cur))
         ELSE split_scan(s, i + 1, Append(cur, s[i]), acc)

split(s) == split_scan(s, 1, << >>, << >>)

-----------------------------------------------------------------------------
(* Messages *)

Str(t) == [type |-> "str", text |-> t, num |-> 0]
NonText(n) == [type |-> "int", text |-> << >>, num |-> n]

MessagePart(c) == [content |-> c, content_type |-> "text/plain"]
Message(role, parts) == [role |-> role, parts |-> parts]

\* Python truthiness of a content value:  not part.content
truthy(c) == IF c.type = "str" THEN c.text # << >> ELSE c.num # 0

\* isinstance(part.content, str)
is_str(c) == c.type = "str"

\* The isinstance test left out: any truthy content passes.
part_ok_no_isinstance(part) == truthy(part.content)

\* Line 41, negated: the part does not make the validator return False.
part_ok(part) == truthy(part.content) /\ is_str(part.content)

\* validate_input(messages)
validate_input(messages) ==
    /\ messages # << >>
    /\ \A m \in DOMAIN messages :
          /\ messages[m].parts # << >>
          /\ \A p \in DOMAIN messages[m].parts : part_ok(messages[m].parts[p])

RECURSIVE join(_)
\* "".join(...) of a sequence of strs
join(ss) == IF ss = << >> THEN << >> ELSE Head(ss) \o join(Tail(ss))

\* get_message_text(input): the text of every part of every message, in
\* order, as one str (acp_sdk; the batch has passed validate_input).
get_message_text(messages) ==
    join([m \in DOMAIN messages |->
            join([p \in DOMAIN messages[m].parts |->
                    messages[m].parts[p].content.text])])

-----------------------------------------------------------------------------
(* extract_user_intent *)

greetings ==
    << <<"h", "e", "l", "l", "o">>,
       <<"h", "i">>,
       <<"h", "e", "y">>,
       <<"g", "r", "e", "e", "t", "i", "n", "g", "s">>,
       <<"g", "o", "o", "d", " ", "m", "o", "r", "n", "i", "n", "g">>,
       <<"g", "o", "o", "d", " ", "a", "f", "t", "e", "r", "n", "o", "o", "n">> >>

farewells ==
    << <<"b", "y", "e">>,
       <<"g", "o", "o", "d", "b", "y", "e">>,
       <<"f", "a", "r", "e", "w", "e", "l", "l">>,
       <<"s", "e", "e", " ", "y", "o", "u">>,
       <<"t", "a", "k", "e", " ", "c", "a", "r", "e">> >>

positive_words ==
    << <<"g", "o", "o", "d">>,
       <<"g", "r", "e", "a", "t">>,
       <<"a", "w", "e", "s", "o", "m", "e">>,
       <<"w", "o", "n", "d", "e", "r", "f", "u", "l">>,
       <<"e", "x", "c", "e", "l", "l", "e", "n", "t">>,
       <<"l", "o", "v", "e">>,
       <<"l", "i", "k", "e">> >>

negative_words ==
    << <<"b", "a", "d">>,
       <<"t", "e", "r", "r", "i", "b", "l", "e">>,
       <<"a", "w", "f", "u", "l">>,
       <<"h", "a", "t", "e">>,
       <<"d", "i", "s", "l", "i", "k", "e">>,
       <<"h", "o", "r", "r", "i", "b", "l", "e">> >>

\* any(word in text for word in words)
any_in(words, text) == \E i \in DOMAIN words : contains(words[i], text)

RECURSIVE count_in(_, _)
\* sum(1 for word in words if word in text)
count_in(words, text) ==
    IF words = << >> THEN 0
    ELSE (IF contains(Head(words), text) THEN 1 ELSE 0)
         + count_in(Tail(words), text)

\* The comparison taken with >= : a tie is reported as positive.
sentiment_tie_positive(positive_count, negative_count) ==
    IF positive_count >= negative_count THEN "positive"
    ELSE "negative"

\* Lines 78-81, over the default "neutral" of line 62
sentiment_of(positive_count, negative_count) ==
    IF positive_count > negative_count THEN "positive"
    ELSE IF negative_count > positive_count THEN "negative"
    ELSE "neutral"

\* Line 57
user_message_lower(text) == lower(text)

\* extract_user_intent(user_message)
extract_user_intent(text) ==
    LET lowered == user_message_lower(text)
    IN  [ message           |-> text,
          intent            |-> "general_chat",
          sentiment         |-> sentiment_of(count_in(positive_words, lowered),
                                             count_in(negative_words, lowered)),
          contains_question |-> contains(<<"?">>, text),
          is_greeting       |-> any_in(greetings, lowered),
          is_farewell       |-> any_in(farewells, lowered),
          word_count        |-> Len(split(text)) ]

-----------------------------------------------------------------------------
(* The inputs drawn *)

\* The fragments texts are made of: a greeting in mixed case, a word that
\* holds "hi", a farewell, the question mark, a space, a positive word, a
\* negative word, a negative word that holds a positive one, and a word of no
\* list.
Vocabulary ==
    { <<"H", "i">>,
      <<"t", "h", "i", "s">>,
      <<"b", "y", "e">>,
      <<"?">>,
      <<" ">>,
      <<"l", "o", "v", "e">>,
      <<"h", "a", "t", "e">>,
      <<"d", "i", "s", "l", "i", "k", "e">>,
      <<"x">> }

\* Texts with other whitespace, and with whitespace only.
EdgeTexts ==
    { <<"\t", "a", "\t", "\n", "B", "a", "d", " ">>,
      <<" ", "\n">> }

\* The strings the unit tests call extract_user_intent with.
TestTexts ==
    { <<"H", "e", "l", "l", "o", ",", " ", "h", "o", "w", " ", "a", "r", "e", " ", "y", "o", "u", "?">>,
      <<"I", " ", "l", "o", "v", "e", " ", "t", "h", "i", "s", " ", "b", "u", "t", " ", "I", " ", "a", "l", "s", "o", " ", "h", "a", "t", "e", " ", "t", "h", "a", "t">>,
      <<"H", "E", "L", "L", "O", " ", "t", "h", "e", "r", "e", "!">>,
      <<"T", "h", "i", "s", " ", "i", "s", " ", "a", " ", "l", "o", "n", "g", "e", "r", " ", "m", "e", "s", "s", "a", "g", "e">>,
      <<"G", "o", "o", "d", " ", "m", "o", "r", "n", "i", "n", "g">>,
      <<"S", "e", "e", " ", "y", "o", "u", " ", "l", "a", "t", "e", "r">>,
      <<"T", "a", "k", "e", " ", "c", "a", "r", "e">>,
      <<"G", "o", "o", "d", "b", "y", "e">> }

RECURSIVE Concats(_)
\* The texts made of at most n vocabulary fragments.
Concats(n) ==
    IF n = 0 THEN { << >> }
    ELSE LET S == Concats(n - 1)
         IN  S \cup { t \o f : t \in S, f \in Vocabulary }

Texts == Concats(MaxFragments) \cup TestTexts \cup EdgeTexts

RECURSIVE SeqsUpTo(_, _)
\* The sequences over S of length at most n.
SeqsUpTo(S, n) ==
    IF n = 0 THEN { << >> }
    ELSE LET T == SeqsUpTo(S, n - 1)
         IN  T \cup { Append(t, x) : t \in T, x \in S }

\* Contents that tell the validator's cases apart: text, empty text, non-text.
ShapeContents == { Str(<<"H", "i">>), Str(<< >>), NonText(123) }

MessagesOver(C) ==
    { Message("user", ps) :
        ps \in SeqsUpTo({ MessagePart(c) : c \in C }, MaxParts) }

\* Every batch shape: 0..MaxMessages messages of 0..MaxParts parts each.
ShapeBatches == SeqsUpTo(MessagesOver(ShapeContents), MaxMessages)

\* One message whose parts are vocabulary fragments.
FragmentBatches ==
    { << m >> : m \in MessagesOver({ Str(f) : f \in Vocabulary }) }

RunInputs == ShapeBatches \cup FragmentBatches

None == [none |-> TRUE]

-----------------------------------------------------------------------------
(* What the agents yield.  A formatted str is the sequence of its segments: *)
(* the literal pieces of the f-string and the values interpolated.  The     *)
(* emoji of the literals are left out.                                      *)

Lit(s) == [kind |-> "literal", lit |-> s, txt |-> << >>, num |-> 0]
Txt(t) == [kind |-> "text", lit |-> "", txt |-> t, num |-> 0]
Num(n) == [kind |-> "number", lit |-> "", txt |-> << >>, num |-> n]

YieldStr(segs) == [type |-> "str", value |-> segs]
YieldThought(s) == [type |-> "dict", thought |-> s]
YieldMessage(segs) ==
    [type |-> "Message", role |-> "agent",
     parts |-> << [content |-> segs, content_type |-> "text/plain"] >>]

\* Line 110
apology ==
    YieldStr(<< Lit("I'm sorry, but I received invalid input. Please send me a text message!") >>)

\* Line 118
thought_analyzing == YieldThought("Analyzing user intent and sentiment...")

\* The first notice yielded a second time in place of the second.
thought_preparing_copied == thought_analyzing

\* Line 142
thought_preparing == YieldThought("Preparing detailed response...")

\* The farewell test placed before the greeting test.
greeting_base_farewell_first(ia, um) ==
    IF ia.is_farewell
    THEN << Lit("Goodbye! It was great chatting with you!") >>
    ELSE IF ia.is_greeting
    THEN << Lit("Hello there! It's wonderful to meet you!") >>
    ELSE IF ia.contains_question
    THEN << Lit("I see you have a question! You asked: '"), Txt(um), Lit("'") >>
    ELSE << Lit("Hello! You said: '"), Txt(um), Lit("'") >>

\* Lines 124-131
greeting_base(ia, um) ==
    IF ia.is_greeting
    THEN << Lit("Hello there! It's wonderful to meet you!") >>
    ELSE IF ia.is_farewell
    THEN << Lit("Goodbye! It was great chatting with you!") >>
    ELSE IF ia.contains_question
    THEN << Lit("I see you have a question! You asked: '"), Txt(um), Lit("'") >>
    ELSE << Lit("Hello! You said: '"), Txt(um), Lit("'") >>

\* Lines 134-137
sentiment_remark(ia) ==
    IF ia.sentiment = "positive"
    THEN << Lit(" I can sense the positive energy in your message!") >>
    ELSE IF ia.sentiment = "negative"
    THEN << Lit(" I hope I can help brighten your day!") >>
    ELSE << >>

\* Lines 124-139: the value of greeting_response when it is yielded
greeting_response(ia, um) == YieldStr(greeting_base(ia, um) \o sentiment_remark(ia))

YesNo(b) == IF b THEN Lit("Yes") ELSE Lit("No")

\* Lines 146-172
enhanced_response(ia, um) ==
    YieldMessage(<<
        Lit("Welcome to the Enhanced BeeAI Agent! **Message Analysis:** Intent: "),
        Lit(ia.intent),
        Lit(" Sentiment: "), Lit(ia.sentiment),
        Lit(" Word count: "), Num(ia.word_count),
        Lit(" Contains question: "), YesNo(ia.contains_question),
        Lit(" Is greeting: "), YesNo(ia.is_greeting),
        Lit(" **Your message:** "), Txt(um),
        Lit(" I'm an enhanced version of the Hello World agent ... **What I can do:** ... Feel free to send me another message to see how I respond!") >>)

\* The handler yielding a fixed text, without str(e).
error_message_generic(e) ==
    YieldMessage(<<
        Lit("I apologize, but I encountered an error while processing your request."),
        Lit(" Please try again or contact support if the issue persists.") >>)

\* Lines 182-188
error_message(e) ==
    YieldMessage(<<
        Lit("I apologize, but I encountered an error while processing your request: "),
        Lit(e.desc),
        Lit(". Please try again or contact support if the issue persists.") >>)

\* The health check validating its input like the other agent.
health_status_validating(messages) ==
    IF validate_input(messages)
    THEN YieldMessage(<< Lit("Agent is healthy and operational! System status: OK") >>)
    ELSE apology

\* Lines 200-206
health_status(messages) ==
    YieldMessage(<< Lit("Agent is healthy and operational! System status: OK") >>)

-----------------------------------------------------------------------------
(* Exceptions.  "except Exception" (line 179) catches the Exception        *)
(* classes; asyncio.CancelledError, raised in a cancelled run where it     *)
(* awaits asyncio.sleep, is a BaseException and is not one of them.        *)

ExceptionClasses == {"ValueError", "AttributeError"}

Failures ==
    { [cls |-> "ValueError", desc |-> "unsupported content"],
      [cls |-> "AttributeError", desc |-> "'Context' object has no attribute 'context_id'"] }

CancelledError == [cls |-> "CancelledError", desc |-> ""]

\* Line 179: except Exception
caught(e) == e.cls \in ExceptionClasses

NoFault == None

\* The positions of the try body (lines 103-177) at which the statement about
\* to run can raise.
TryPcs == { "start", "valid", "yield_thought1", "sleep1", "yield_reply",
            "yield_thought2", "sleep2", "yield_summary" }

\* The positions at which the run awaits asyncio.sleep (lines 119, 143).
SleepPcs == { "sleep1", "sleep2" }

Raisable(p) == IF p \in SleepPcs THEN Failures \cup {CancelledError} ELSE Failures

-----------------------------------------------------------------------------
(* The runs *)

Enhanced == "enhanced-hello-world-agent"
Health == "health-check"
Agents == {Enhanced, Health}

\* The runs the server may hold, and those invoked.
Runs == 1 .. NumRuns
Invoked == DOMAIN pc

Logged(r, line) == log \cup { [run |-> r, line |-> line] }

\* Line 111 missing: after the apology the run goes on to line 114.
after_apology_no_return == "valid"

\* Line 111: return
after_apology == "done"

\* A module-level user_message, which every run overwrites: the one read is
\* the one written last, here that of the highest-numbered run.
message_of_shared(r) ==
    user_message[CHOOSE q \in DOMAIN user_message :
                    \A p \in DOMAIN user_message : p <= q]

\* The local user_message of run r (line 114)
message_of(r) == user_message[r]

\* Lines 105-110: log, validate; an invalid batch gets the apology.
Start(r) ==
    /\ r \in Invoked
    /\ agent[r] = Enhanced /\ pc[r] = "start"
    /\ IF ~validate_input(input[r])
       THEN /\ out' = [out EXCEPT ![r] = Append(@, apology)]
            /\ pc' = [pc EXCEPT ![r] = "yield_apology"]
            /\ log' = Logged(r, 105) \cup { [run |-> r, line |-> 109] }
       ELSE /\ pc' = [pc EXCEPT ![r] = "valid"]
            /\ log' = Logged(r, 105)
            /\ out' = out
    /\ UNCHANGED << agent, input, pauses, user_message, intent_analysis,
                    fault, call >>

\* Line 111: resumed after the apology, the run returns.
ResumeApology(r) ==
    /\ r \in Invoked
    /\ pc[r] = "yield_apology"
    /\ pc' = [pc EXCEPT ![r] = after_apology]
    /\ UNCHANGED << agent, input, out, pauses, user_message, intent_analysis,
                    fault, log, call >>

\* Lines 114-118: extract the text, yield the first notice.
ExtractText(r) ==
    /\ r \in Invoked
    /\ pc[r] = "valid"
    /\ user_message' = [user_message EXCEPT ![r] = get_message_text(input[r])]
    /\ out' = [out EXCEPT ![r] = Append(@, thought_analyzing)]
    /\ pc' = [pc EXCEPT ![r] = "yield_thought1"]
    /\ log' = Logged(r, 115)
    /\ UNCHANGED << agent, input, pauses, intent_analysis, fault, call >>

\* Line 119: resumed after the first notice, the run awaits asyncio.sleep(0.3).
ResumeThought1(r) ==
    /\ r \in Invoked
    /\ pc[r] = "yield_thought1"
    /\ pc' = [pc EXCEPT ![r] = "sleep1"]
    /\ pauses' = [pauses EXCEPT ![r] = Append(@, Len(out[r]))]
    /\ UNCHANGED << agent, input, out, user_message, intent_analysis,
                    fault, log, call >>

\* Lines 121-139: the sleep over, analyse the text and yield the reply.
Wake1(r) ==
    /\ r \in Invoked
    /\ pc[r] = "sleep1"
    /\ LET ia == extract_user_intent(message_of(r))
       IN  /\ intent_analysis' = [intent_analysis EXCEPT ![r] = ia]
           /\ out' = [out EXCEPT ![r] =
                        Append(@, greeting_response(ia, message_of(r)))]
    /\ pc' = [pc EXCEPT ![r] = "yield_reply"]
    /\ UNCHANGED << agent, input, pauses, user_message, fault, log, call >>

\* Line 142: resumed after the reply, yield the second notice.
ResumeReply(r) ==
    /\ r \in Invoked
    /\ pc[r] = "yield_reply"
    /\ out' = [out EXCEPT ![r] = Append(@, thought_preparing)]
    /\ pc' = [pc EXCEPT ![r] = "yield_thought2"]
    /\ UNCHANGED << agent, input, pauses, user_message, intent_analysis,
                    fault, log, call >>

\* Line 143: resumed after the second notice, the run awaits asyncio.sleep(0.5).
ResumeThought2(r) ==
    /\ r \in Invoked
    /\ pc[r] = "yield_thought2"
    /\ pc' = [pc EXCEPT ![r] = "sleep2"]
    /\ pauses' = [pauses EXCEPT ![r] = Append(@, Len(out[r]))]
    /\ UNCHANGED << agent, input, out, user_message, intent_analysis,
                    fault, log, call >>

\* Lines 146-174: the sleep over, yield the summary message.
Wake2(r) ==
    /\ r \in Invoked
    /\ pc[r] = "sleep2"
    /\ out' = [out EXCEPT ![r] =
                 Append(@, enhanced_response(intent_analysis[r], message_of(r)))]
    /\ pc' = [pc EXCEPT ![r] = "yield_summary"]
    /\ UNCHANGED << agent, input, pauses, user_message, intent_analysis,
                    fault, log, call >>

\* Line 177: resumed after the summary, log and end.
ResumeSummary(r) ==
    /\ r \in Invoked
    /\ pc[r] = "yield_summary"
    /\ pc' = [pc EXCEPT ![r] = "done"]
    /\ log' = Logged(r, 177)
    /\ UNCHANGED << agent, input, out, pauses, user_message, intent_analysis,
                    fault, call >>

\* Lines 179-188: the statement about to run raises e.  An Exception is
\* logged and answered with the error message; anything else leaves the
\* generator.
Raise(r, e) ==
    /\ r \in Invoked
    /\ agent[r] = Enhanced /\ pc[r] \in TryPcs /\ fault[r] = NoFault
    /\ e \in Raisable(pc[r])
    /\ fault' = [fault EXCEPT ![r] = [exc |-> e, at |-> pc[r]]]
    /\ IF caught(e)
       THEN /\ out' = [out EXCEPT ![r] = Append(@, error_message(e))]
            /\ pc' = [pc EXCEPT ![r] = "yield_error"]
            /\ log' = Logged(r, 181)
       ELSE /\ pc' = [pc EXCEPT ![r] = "propagated"]
            /\ UNCHANGED << out, log >>
    /\ UNCHANGED << agent, input, pauses, user_message, intent_analysis, call >>

\* Line 188: resumed after the error message, the handler and the run end.
ResumeError(r) ==
    /\ r \in Invoked
    /\ pc[r] = "yield_error"
    /\ pc' = [pc EXCEPT ![r] = "done"]
    /\ UNCHANGED << agent, input, out, pauses, user_message, intent_analysis,
                    fault, log, call >>

\* Lines 200-206: health_check_agent yields its status message.
HealthYield(r) ==
    /\ r \in Invoked
    /\ agent[r] = Health /\ pc[r] = "start"
    /\ out' = [out EXCEPT ![r] = Append(@, health_status(input[r]))]
    /\ pc' = [pc EXCEPT ![r] = "yield_health"]
    /\ UNCHANGED << agent, input, pauses, user_message, intent_analysis,
                    fault, log, call >>

\* Line 206: resumed, health_check_agent ends.
ResumeHealth(r) ==
    /\ r \in Invoked
    /\ pc[r] = "yield_health"
    /\ pc' = [pc EXCEPT ![r] = "done"]
    /\ UNCHANGED << agent, input, out, pauses, user_message, intent_analysis,
                    fault, log, call >>

NoCall == [fn |-> "none", arg |-> << >>, returned |-> FALSE, ret |-> None]

\* The state of runs R invoked with agents and batches chosen from I.
InitRuns(R, I) ==
    /\ agent \in [R -> Agents]
    /\ input \in [R -> I]
    /\ pc = [r \in R |-> "start"]
    /\ out = [r \in R |-> << >>]
    /\ pauses = [r \in R |-> << >>]
    /\ user_message = [r \in R |-> << >>]
    /\ intent_analysis = [r \in R |-> None]
    /\ fault = [r \in R |-> NoFault]
    /\ log = {}
    /\ call = NoCall

Step(r) ==
    \/ Start(r)
    \/ ResumeApology(r)
    \/ ExtractText(r)
    \/ ResumeThought1(r)
    \/ Wake1(r)
    \/ ResumeReply(r)
    \/ ResumeThought2(r)
    \/ Wake2(r)
    \/ ResumeSummary(r)
    \/ \E e \in Failures \cup {CancelledError} : Raise(r, e)
    \/ ResumeError(r)
    \/ HealthYield(r)
    \/ ResumeHealth(r)

Next == \E r \in Runs : Step(r)

\* One run, on every batch shape and every fragment batch.
Init == InitRuns({1}, RunInputs)

Spec == Init /\ [][Next]_vars

\* The valid batches the concurrent runs are invoked with, run r with the r-th
\* (and round again): their texts differ.
ConcInputs ==
    << << Message("user", << MessagePart(Str(<<"H", "i">>)) >>) >>,
       << Message("user", << MessagePart(Str(<<"b", "y", "e", "?">>)),
                             MessagePart(Str(<<" ", "h", "a", "t", "e">>)) >>) >> >>

ConcInputOf(r) == ConcInputs[((r - 1) % Len(ConcInputs)) + 1]

\* A batch that fails validation.
InvalidInput == << Message("user", << MessagePart(NonText(123)) >>) >>

\* NumRuns runs invoked together, each of either agent, each with its valid
\* batch or with the invalid one; the event loop resumes one at a time.
InitConcurrent ==
    /\ InitRuns(Runs, { ConcInputOf(r) : r \in Runs } \cup { InvalidInput })
    /\ \A r \in Runs : input[r] \in { ConcInputOf(r), InvalidInput }

SpecConcurrent == InitConcurrent /\ [][Next]_vars

-----------------------------------------------------------------------------
(* Direct calls of the pure functions, as the unit tests make them *)

NoRuns == << >>

InitCalls ==
    /\ agent = NoRuns /\ input = NoRuns /\ pc = NoRuns /\ out = NoRuns
    /\ pauses = NoRuns /\ user_message = NoRuns /\ intent_analysis = NoRuns
    /\ fault = NoRuns /\ log = {}
    /\ call \in [fn : {"validate_input"}, arg : ShapeBatches,
                 returned : {FALSE}, ret : {None}]
            \cup [fn : {"extract_user_intent"}, arg : Texts,
                  returned : {FALSE}, ret : {None}]

run_vars == << agent, input, pc, out, pauses, user_message, intent_analysis,
               fault, log >>

CallValidateInput ==
    /\ call.fn = "validate_input" /\ ~call.returned
    /\ call' = [call EXCEPT !.returned = TRUE, !.ret = validate_input(call.arg)]
    /\ UNCHANGED run_vars

CallExtractUserIntent ==
    /\ call.fn = "extract_user_intent" /\ ~call.returned
    /\ call' = [call EXCEPT !.returned = TRUE,
                            !.ret = extract_user_intent(call.arg)]
    /\ UNCHANGED run_vars

NextCalls == CallValidateInput \/ CallExtractUserIntent

SpecCalls == InitCalls /\ [][NextCalls]_vars

-----------------------------------------------------------------------------
(* The properties.  Their vocabulary is stated apart from the operators    *)
(* that model the code.                                                    *)

\* s occurs in t as a contiguous substring.
Occurs(s, t) ==
    \E i \in 1 .. (Len(t) - Len(s) + 1) : SubSeq(t, i, i + Len(s) - 1) = s

ListWords(words) == { words[i] : i \in DOMAIN words }

\* The batch is empty, or a message has no parts, or a part's content is
\* empty or is not text.
InvalidBatch(b) ==
    \/ Len(b) = 0
    \/ \E m \in DOMAIN b : Len(b[m].parts) = 0
    \/ \E m \in DOMAIN b : \E p \in DOMAIN b[m].parts :
          \/ b[m].parts[p].content.type # "str"
          \/ Len(b[m].parts[p].content.text) = 0

IsPrefix(s, t) == Len(s) <= Len(t) /\ s = SubSeq(t, 1, Len(s))

ApologyText ==
    [type |-> "str",
     value |-> << Lit("I'm sorry, but I received invalid input. Please send me a text message!") >>]

EnhancedRuns == { r \in Invoked : agent[r] = Enhanced }
HealthRuns == { r \in Invoked : agent[r] = Health }

\* C1: a run of enhanced_hello_world_agent on a batch that fails validation,
\* in which nothing raises, yields the apology and nothing else, and ends:
\* no notice, no reply, no summary, nothing raised.
C1_InvalidBatchOnlyApology ==
    \A r \in EnhancedRuns :
        (InvalidBatch(input[r]) /\ fault[r] = NoFault) =>
            /\ pc[r] \in {"start", "yield_apology", "done"}
            /\ out[r] = IF pc[r] = "start" THEN << >> ELSE << ApologyText >>
            /\ pauses[r] = << >>

\* C1 witness: a run on a batch whose second message holds a non-text part
\* has ended after the apology.
C1_Witness ==
    \E r \in EnhancedRuns :
        /\ Len(input[r]) = 2
        /\ ~InvalidBatch(<< input[r][1] >>)
        /\ \E p \in DOMAIN input[r][2].parts :
              input[r][2].parts[p].content.type = "int"
        /\ pc[r] = "done" /\ out[r] = << ApologyText >>

\* The kinds of the four outputs of a successful run, in order.
OutputKinds == << "dict", "str", "dict", "Message" >>

\* C2: a run on a valid batch in which nothing raises yields, in this order
\* and once each, the "Analyzing" notice, the reply str, the "Preparing"
\* notice and the summary Message; it has slept exactly after the first and
\* after the third output.
C2_FourOutputsInOrder ==
    \A r \in EnhancedRuns :
        (~InvalidBatch(input[r]) /\ fault[r] = NoFault) =>
            /\ Len(out[r]) <= 4
            /\ \A i \in DOMAIN out[r] : out[r][i].type = OutputKinds[i]
            /\ Len(out[r]) >= 1 =>
                  out[r][1].thought = "Analyzing user intent and sentiment..."
            /\ Len(out[r]) >= 3 =>
                  out[r][3].thought = "Preparing detailed response..."
            /\ IsPrefix(pauses[r], << 1, 3 >>)
            /\ pc[r] = "sleep1" => (Len(out[r]) = 1 /\ pauses[r] = << 1 >>)
            /\ pc[r] = "sleep2" => (Len(out[r]) = 3 /\ pauses[r] = << 1, 3 >>)
            /\ pc[r] = "done" => (Len(out[r]) = 4 /\ pauses[r] = << 1, 3 >>)
            /\ pc[r] # "propagated"

\* C2 witness: a successful run has ended with its four outputs.
C2_Witness ==
    \E r \in EnhancedRuns :
        /\ ~InvalidBatch(input[r]) /\ fault[r] = NoFault
        /\ pc[r] = "done" /\ Len(out[r]) = 4 /\ pauses[r] = << 1, 3 >>

\* The outputs a run has yielded when it reaches position p of the try body.
OutputsBefore(p) ==
    CASE p \in {"start", "valid"} -> 0
      [] p \in {"yield_thought1", "sleep1"} -> 1
      [] p = "yield_reply" -> 2
      [] p \in {"yield_thought2", "sleep2"} -> 3
      [] p = "yield_summary" -> 4

\* The Message is the error message that embeds description d.
IsErrorMessageFor(o, d) ==
    /\ o.type = "Message" /\ o.role = "agent"
    /\ o.parts[1].content[1] =
          Lit("I apologize, but I encountered an error while processing your request: ")
    /\ \E i \in DOMAIN o.parts[1].content : o.parts[1].content[i] = Lit(d)

\* After a failure the run has yielded one more output, the error message
\* with the failure's description, and is ending or has ended.
HandledFailure(r) ==
    /\ pc[r] \in {"yield_error", "done"}
    /\ Len(out[r]) = OutputsBefore(fault[r].at) + 1
    /\ IsErrorMessageFor(out[r][Len(out[r])], fault[r].exc.desc)

\* C3 as stated: whatever is raised at whatever step, the run yields the
\* error message with the description, nothing after it, and ends normally;
\* nothing reaches the caller.
C3_EveryFailureHandled ==
    \A r \in EnhancedRuns : fault[r] # NoFault => HandledFailure(r)

\* C3 amended: that holds of every exception of class Exception raised in
\* the try body; a cancellation (asyncio.CancelledError) at one of the two
\* sleeps is not caught, yields nothing and leaves the generator.
C3_ExceptionsHandled ==
    \A r \in EnhancedRuns :
        fault[r] # NoFault =>
            IF fault[r].exc.cls = "CancelledError"
            THEN /\ pc[r] = "propagated"
                 /\ Len(out[r]) = OutputsBefore(fault[r].at)
            ELSE HandledFailure(r)

\* C3 witness: an exception raised after all four outputs was answered with
\* the error message as a fifth, and the run has ended.
C3_Witness ==
    \E r \in EnhancedRuns :
        /\ fault[r] # NoFault /\ fault[r].at = "yield_summary"
        /\ pc[r] = "done" /\ Len(out[r]) = 5
        /\ IsErrorMessageFor(out[r][5], "unsupported content")

\* C4: validate_input returns False exactly on the invalid batches.
C4_ValidateInputExact ==
    (call.fn = "validate_input" /\ call.returned) =>
        call.ret = ~InvalidBatch(call.arg)

\* C4 witness: False was returned for a batch whose first message is valid
\* and whose second message has a truthy non-text part after a text part.
C4_Witness ==
    /\ call.fn = "validate_input" /\ call.returned /\ call.ret = FALSE
    /\ Len(call.arg) = 2
    /\ ~InvalidBatch(<< call.arg[1] >>)
    /\ Len(call.arg[2].parts) = 2
    /\ call.arg[2].parts[1].content.type = "str"
    /\ call.arg[2].parts[2].content.type = "int"

\* The text with every upper-case letter replaced by its lower-case letter.
LowerCased(t) ==
    [i \in DOMAIN t |->
        IF \E k \in DOMAIN UpperCase : UpperCase[k] = t[i]
        THEN LowerCase[CHOOSE k \in DOMAIN UpperCase : UpperCase[k] = t[i]]
        ELSE t[i]]

\* The number of words of the list that occur in the lower-cased text.
WordsOccurring(words, text) ==
    Cardinality({ w \in ListWords(words) : Occurs(w, LowerCased(text)) })

\* C5: sentiment is "positive" when more positive-list words than
\* negative-list words occur in the lower-cased text, "negative" when more
\* negative-list words occur, and "neutral" when as many of each occur.
C5_SentimentByCounts ==
    (call.fn = "extract_user_intent" /\ call.returned) =>
        LET pos == WordsOccurring(positive_words, call.arg)
            neg == WordsOccurring(negative_words, call.arg)
        IN  /\ call.ret.sentiment \in {"positive", "negative", "neutral"}
            /\ call.ret.sentiment = "positive" <=> pos > neg
            /\ call.ret.sentiment = "negative" <=> neg > pos
            /\ call.ret.sentiment = "neutral" <=> pos = neg

\* C5 witness: a text with one word of each list was found neutral.
C5_Witness ==
    /\ call.fn = "extract_user_intent" /\ call.returned
    /\ WordsOccurring(positive_words, call.arg) = 1
    /\ WordsOccurring(negative_words, call.arg) = 1
    /\ call.ret.sentiment = "neutral"

\* The maximal runs of non-whitespace characters of t.
TokenCount(t) ==
    Cardinality({ i \in DOMAIN t :
        /\ t[i] \notin Whitespace
        /\ (i = 1 \/ t[i - 1] \in Whitespace) })

\* C6 as stated: word_count is the number of whitespace-delimited tokens,
\* and the empty text has word_count 1.
C6_WordCountEmptyIsOne ==
    (call.fn = "extract_user_intent" /\ call.returned) =>
        call.ret.word_count = IF call.arg = << >> THEN 1 ELSE TokenCount(call.arg)

upper_char(c) ==
    IF \E i \in DOMAIN LowerCase : LowerCase[i] = c
    THEN UpperCase[CHOOSE i \in DOMAIN LowerCase : LowerCase[i] = c]
    ELSE c

\* The texts that differ from t in the case of letters only: one letter
\* switched, or every letter made upper or lower case.
CaseVariants(t) ==
    { [t EXCEPT ![i] = IF upper_char(@) # @ THEN upper_char(@)
                       ELSE LowerCased(<< @ >>)[1]] : i \in DOMAIN t }
    \cup { [i \in DOMAIN t |-> upper_char(t[i])], LowerCased(t) }

\* C7: is_greeting holds exactly when a greeting word occurs in the
\* lower-cased text, is_farewell exactly when a farewell word does, and
\* neither flag changes when the case of letters of the text is changed.
C7_GreetingFarewellFlags ==
    (call.fn = "extract_user_intent" /\ call.returned) =>
        /\ call.ret.is_greeting <=>
              \E g \in ListWords(greetings) : Occurs(g, LowerCased(call.arg))
        /\ call.ret.is_farewell <=>
              \E f \in ListWords(farewells) : Occurs(f, LowerCased(call.arg))
        /\ \A v \in CaseVariants(call.arg) :
              /\ extract_user_intent(v).is_greeting = call.ret.is_greeting
              /\ extract_user_intent(v).is_farewell = call.ret.is_farewell

\* C7 witness: "HELLO there!" was found a greeting and not a farewell.
C7_Witness ==
    /\ call.fn = "extract_user_intent" /\ call.returned
    /\ call.arg = <<"H", "E", "L", "L", "O", " ", "t", "h", "e", "r", "e", "!">>
    /\ call.ret.is_greeting /\ ~call.ret.is_farewell

HealthText ==
    [type |-> "Message", role |-> "agent",
     parts |-> << [content |-> << Lit("Agent is healthy and operational! System status: OK") >>,
                   content_type |-> "text/plain"] >>]

\* What a run alone yields in all: a function of its agent, its batch and
\* the exception raised in it (f), if any.
SoloOutputs(a, b, f) ==
    IF a = Health THEN << HealthText >>
    ELSE LET text == get_message_text(b)
             ia == extract_user_intent(text)
             normal == IF InvalidBatch(b) THEN << ApologyText >>
                       ELSE << thought_analyzing, greeting_response(ia, text),
                               thought_preparing, enhanced_response(ia, text) >>
         IN  IF f = NoFault THEN normal
             ELSE IF f.exc.cls = "CancelledError"
             THEN SubSeq(normal, 1, OutputsBefore(f.at))
             ELSE SubSeq(normal, 1, OutputsBefore(f.at)) \o << error_message(f.exc) >>

\* C8: however the steps of concurrent runs interleave, what each run has
\* yielded is the beginning of what it yields alone, and all of it once the
\* run is over; its locals are those of its own batch.
C8_RunsIndependent ==
    \A r \in Invoked :
        LET solo == SoloOutputs(agent[r], input[r], fault[r])
        IN  /\ IsPrefix(out[r], solo)
            /\ pc[r] \in {"done", "propagated"} => out[r] = solo
            /\ user_message[r] \in {<< >>, get_message_text(input[r])}
            /\ intent_analysis[r] # None =>
                  intent_analysis[r].message = get_message_text(input[r])

\* C8 witness: two runs of the enhanced agent on different valid batches are
\* asleep together, one at the first pause and one at the second.
C8_Witness ==
    \E r1, r2 \in EnhancedRuns :
        /\ r1 # r2 /\ input[r1] # input[r2]
        /\ ~InvalidBatch(input[r1]) /\ ~InvalidBatch(input[r2])
        /\ pc[r1] = "sleep2" /\ pc[r2] = "sleep1"
        /\ Len(out[r1]) = 3 /\ Len(out[r2]) = 1

\* C9: a run of health_check_agent yields the one static status message,
\* whatever its batch, and ends.
C9_HealthCheckStatic ==
    \A r \in HealthRuns :
        /\ pc[r] \in {"start", "yield_health", "done"}
        /\ out[r] = IF pc[r] = "start" THEN << >> ELSE << HealthText >>
        /\ fault[r] = NoFault /\ pauses[r] = << >>

\* C9 witness: a health check run on a batch with a non-text part has ended
\* after the status message.
C9_Witness ==
    \E r \in HealthRuns :
        /\ pc[r] = "done" /\ out[r] = << HealthText >>
        /\ Len(input[r]) > 0 /\ InvalidBatch(input[r])

GreetingReply == Lit("Hello there! It's wonderful to meet you!")
FarewellReply == Lit("Goodbye! It was great chatting with you!")
PositiveRemark == Lit(" I can sense the positive energy in your message!")
NegativeRemark == Lit(" I hope I can help brighten your day!")

\* The reply's base, chosen from the record by the stated priority.
ExpectedBase(ia) ==
    CASE ia.is_greeting -> << GreetingReply >>
      [] ~ia.is_greeting /\ ia.is_farewell -> << FarewellReply >>
      [] ~ia.is_greeting /\ ~ia.is_farewell /\ ia.contains_question ->
            << Lit("I see you have a question! You asked: '"),
               Txt(ia.message), Lit("'") >>
      [] OTHER -> << Lit("Hello! You said: '"), Txt(ia.message), Lit("'") >>

ExpectedRemark(ia) ==
    CASE ia.sentiment = "positive" -> << PositiveRemark >>
      [] ia.sentiment = "negative" -> << NegativeRemark >>
      [] ia.sentiment = "neutral" -> << >>

\* C10: once a run has analysed its text, its second output is the base
\* chosen by priority greeting, farewell, question, echo, followed by a
\* sentiment remark exactly when the sentiment is not neutral; the summary,
\* once yielded, reports the same record's fields.
C10_ReplyByPriority ==
    \A r \in EnhancedRuns :
        intent_analysis[r] # None =>
            LET ia == intent_analysis[r]
            IN  /\ ia = extract_user_intent(get_message_text(input[r]))
                /\ Len(out[r]) >= 2
                /\ out[r][2] =
                      [type |-> "str", value |-> ExpectedBase(ia) \o ExpectedRemark(ia)]
                /\ (Len(out[r]) >= 4 /\ out[r][4].type = "Message"
                    /\ OutputsBefore(IF fault[r] = NoFault THEN "yield_summary"
                                     ELSE fault[r].at) = 4) =>
                      LET c == out[r][4].parts[1].content
                      IN  /\ c[2] = Lit(ia.intent)
                          /\ c[4] = Lit(ia.sentiment)
                          /\ c[6] = Num(ia.word_count)
                          /\ c[8] = Lit(IF ia.contains_question THEN "Yes" ELSE "No")
                          /\ c[10] = Lit(IF ia.is_greeting THEN "Yes" ELSE "No")
                          /\ c[12] = Txt(ia.message)

\* C10 witness: a text that is both a greeting and a farewell got the
\* greeting reply, with no remark as its sentiment is neutral, and the run
\* has ended with its summary.
C10_Witness ==
    \E r \in EnhancedRuns :
        /\ intent_analysis[r] # None
        /\ intent_analysis[r].is_greeting /\ intent_analysis[r].is_farewell
        /\ intent_analysis[r].sentiment = "neutral"
        /\ pc[r] = "done" /\ fault[r] = NoFault /\ Len(out[r]) = 4
        /\ out[r][2].value = << GreetingReply >>

=============================================================================
